---- MODULE Spec2Model ----
(***************************************************************************)
(* Model of the gmaps enrichment core of google-maps-scraper:              *)
(*   - EntryFromJSON and getNthElementAndCast (gmaps/entry.go),            *)
(*   - EmailExtractJob.Process and its extractors (gmaps/emailjob.go),     *)
(*   - CEIDGExtractJob.Process (gmaps/emailjob.go),                        *)
(*   - the decode -> mine -> enrich job chain run by the executor.         *)
(* Go strings are TLA+ strings; a Go index i is position i+1 here.         *)
(***************************************************************************)
EXTENDS Integers, Sequences, FiniteSets, TLC

(***************************************************************************)
(* strings package                                                         *)
(***************************************************************************)
Char(s, i) == SubSeq(s, i, i)

HasPrefix(s, p) == Len(s) >= Len(p) /\ SubSeq(s, 1, Len(p)) = p

TrimPrefix(s, p) == IF HasPrefix(s, p) THEN SubSeq(s, Len(p) + 1, Len(s)) ELSE s

\* 0 when sub does not occur, else the first position where it starts
Index(s, sub) ==
    LET hits == {i \in 1..(Len(s) - Len(sub) + 1) : SubSeq(s, i, i + Len(sub) - 1) = sub}
    IN IF hits = {} THEN 0 ELSE CHOOSE i \in hits : \A k \in hits : i <= k

Contains(s, sub) == Index(s, sub) # 0

IsSpace(c) == c = " "

TrimSpace(s) ==
    LET keep == {i \in 1..Len(s) : ~IsSpace(Char(s, i))}
    IN IF keep = {} THEN ""
       ELSE SubSeq(s, CHOOSE i \in keep : \A k \in keep : i <= k,
                      CHOOSE i \in keep : \A k \in keep : i >= k)

RECURSIVE ReplaceAll(_, _, _)
ReplaceAll(s, old, new) ==
    IF Len(s) = 0 THEN ""
    ELSE IF Char(s, 1) = old THEN new \o ReplaceAll(SubSeq(s, 2, Len(s)), old, new)
    ELSE Char(s, 1) \o ReplaceAll(SubSeq(s, 2, Len(s)), old, new)

(***************************************************************************)
(* Values produced by json.Unmarshal into []any                            *)
(***************************************************************************)
Null == [t |-> "null"]
Str(s) == [t |-> "str", v |-> s]
Num(n) == [t |-> "num", v |-> n]
Arr(a) == [t |-> "arr", v |-> a]
\* raw bytes that are not JSON at all
NotJSON == [t |-> "invalid"]

\* the map the decoder makes and the nil map of Entry{} both have no key
EmptyMap == [k \in {} |-> ""]

MapSet(m, key, value) == [k \in (DOMAIN m) \cup {key} |-> IF k = key THEN value ELSE m[k]]

ZeroEntry ==
    [ID |-> "", Link |-> "", Title |-> "", Address |-> [Street |-> "", Number |-> ""],
     City |-> "", WebSite |-> "", Phone |-> "", Emails |-> <<>>,
     SocialLinks |-> EmptyMap, NIP |-> "", CEIDG |-> ""]

Platforms == <<"facebook", "instagram", "twitter">>

DefaultVal(T) == IF T = "string" THEN "" ELSE <<>>

\* the type assertion .(T): decoded JSON holds string, float64, []any or nil,
\* so a []any never asserts to []string
CastOK(T, x) == IF T = "string" THEN x.t = "str" ELSE x.t = "strs"

Returned(x) == [panic |-> FALSE, val |-> x]
Panicked == [panic |-> TRUE, val |-> ""]

\* the final read arr[indexes[0]].(T): only the empty array is guarded, the
\* index itself is not compared with len(arr)
TerminalRead(T, arr, idx) ==
    IF Len(arr) = 0 THEN Returned(DefaultVal(T))
    ELSE IF idx >= Len(arr) THEN Panicked
    ELSE IF CastOK(T, arr[idx + 1]) THEN Returned(arr[idx + 1].v)
    ELSE Returned(DefaultVal(T))

RECURSIVE getNthElementAndCast(_, _, _)
getNthElementAndCast(T, arr, indexes) ==
    IF Len(indexes) = 0 THEN Returned(DefaultVal(T))
    ELSE IF Len(indexes) > 1
    THEN LET idx == Head(indexes)
         IN IF idx >= Len(arr) THEN Returned(DefaultVal(T))
            ELSE LET next == arr[idx + 1]
                 IN IF next.t = "null" THEN Returned(DefaultVal(T))
                    ELSE IF next.t # "arr" THEN Returned(DefaultVal(T))
                    ELSE getNthElementAndCast(T, next.v, Tail(indexes))
    ELSE TerminalRead(T, arr, indexes[1])

\* regexp ^(.*?),\s*(.*?)(?:, \d{2}-\d{3})?(?:, .+)?$ : group 1 ends at the
\* first comma, \s* takes the blanks after it, the lazy group 2 stops at the
\* first ", " that still has a character after it (or at the end)
RECURSIVE SkipSpaces(_)
SkipSpaces(s) ==
    IF Len(s) > 0 /\ IsSpace(Char(s, 1)) THEN SkipSpaces(SubSeq(s, 2, Len(s))) ELSE s

extractStreetAndNumber(fullAddress) ==
    LET comma == Index(fullAddress, ",")
    IN IF comma = 0 THEN [Street |-> "", Number |-> ""]
       ELSE LET rest == SkipSpaces(SubSeq(fullAddress, comma + 1, Len(fullAddress)))
                stops == {i \in 1..(Len(rest) - 2) : SubSeq(rest, i, i + 1) = ", "}
                address == IF stops = {} THEN rest
                           ELSE SubSeq(rest, 1, (CHOOSE i \in stops : \A k \in stops : i <= k) - 1)
                sp == Index(address, " ")
            IN IF sp = 0 THEN [Street |-> address, Number |-> ""]
               ELSE [Street |-> SubSeq(address, 1, sp - 1),
                     Number |-> SubSeq(address, sp + 1, Len(address))]

RECURSIVE SeedSocialLinks(_, _, _)
SeedSocialLinks(m, website, i) ==
    IF i > Len(Platforms) THEN m
    ELSE SeedSocialLinks(IF Contains(website, Platforms[i]) THEN MapSet(m, Platforms[i], website) ELSE m,
                         website, i + 1)

MinTopLevel == 7
SubSeqIndex == 6

\* result of EntryFromJSON: kind "ok" (record, nil error), "err" (Entry{}, error)
\* or "panic" (index out of range at run time, nothing is returned)
EntryFromJSON(raw) ==
    IF raw.t # "arr" /\ raw.t # "null" THEN [kind |-> "err", entry |-> ZeroEntry]
    ELSE LET jd == IF raw.t = "null" THEN <<>> ELSE raw.v
         IN IF Len(jd) < MinTopLevel THEN [kind |-> "err", entry |-> ZeroEntry]
            ELSE IF jd[SubSeqIndex + 1].t # "arr" THEN [kind |-> "err", entry |-> ZeroEntry]
            ELSE LET darray == jd[SubSeqIndex + 1].v
                     id == getNthElementAndCast("string", darray, <<0>>)
                     link == getNthElementAndCast("string", darray, <<1>>)
                     title == getNthElementAndCast("string", darray, <<11>>)
                     city == getNthElementAndCast("string", darray, <<183, 1, 3>>)
                     website == getNthElementAndCast("string", darray, <<7, 0>>)
                     phone == getNthElementAndCast("string", darray, <<178, 0, 0>>)
                     emails == getNthElementAndCast("[]string", darray, <<5>>)
                     fullAddress == getNthElementAndCast("string", darray, <<18>>)
                 IN IF id.panic \/ link.panic \/ title.panic \/ city.panic \/ website.panic
                       \/ phone.panic \/ emails.panic \/ fullAddress.panic
                    THEN [kind |-> "panic", entry |-> ZeroEntry]
                    ELSE [kind |-> "ok",
                          entry |-> [ID |-> id.val, Link |-> link.val, Title |-> title.val,
                                     Address |-> extractStreetAndNumber(fullAddress.val),
                                     City |-> city.val, WebSite |-> website.val,
                                     Phone |-> phone.val, Emails |-> emails.val,
                                     SocialLinks |-> SeedSocialLinks(EmptyMap, website.val, 1),
                                     NIP |-> "", CEIDG |-> ""]]

(***************************************************************************)
(* go-emailaddress: Parse accepts local@domain, Find returns the accepted  *)
(* address-shaped runs of the haystack in order of occurrence              *)
(***************************************************************************)
Letters == {"a", "b", "c", "d", "e", "f", "g", "h", "i", "j", "k", "l", "m",
            "n", "o", "p", "q", "r", "s", "t", "u", "v", "w", "x", "y", "z"}
Digits == {"0", "1", "2", "3", "4", "5", "6", "7", "8", "9"}

IsDigit(c) == c \in Digits
IsAtomChar(c) == c \in Letters \cup Digits
IsAddrChar(c) == IsAtomChar(c) \/ c = "." \/ c = "@"

DotAtom(x) ==
    /\ Len(x) > 0
    /\ \A i \in 1..Len(x) : IsAtomChar(Char(x, i)) \/ Char(x, i) = "."
    /\ Char(x, 1) # "." /\ Char(x, Len(x)) # "."
    /\ ~Contains(x, "..")

emailaddressParseOK(s) ==
    LET at == Index(s, "@")
    IN /\ at # 0
       /\ DotAtom(SubSeq(s, 1, at - 1))
       /\ DotAtom(SubSeq(s, at + 1, Len(s)))
       /\ Contains(SubSeq(s, at + 1, Len(s)), ".")

RECURSIVE RunEnd(_, _)
RunEnd(s, i) == IF i < Len(s) /\ IsAddrChar(Char(s, i + 1)) THEN RunEnd(s, i + 1) ELSE i

RECURSIVE emailaddressFind(_, _)
emailaddressFind(body, i) ==
    IF i > Len(body) THEN <<>>
    ELSE IF ~IsAddrChar(Char(body, i)) THEN emailaddressFind(body, i + 1)
    ELSE LET j == RunEnd(body, i)
             run == SubSeq(body, i, j)
         IN (IF emailaddressParseOK(run) THEN <<run>> ELSE <<>>) \o emailaddressFind(body, j + 1)

\* err # nil is ok = FALSE
getValidEmail(s) ==
    LET t == TrimSpace(s)
    IN IF emailaddressParseOK(t) THEN [ok |-> TRUE, email |-> t] ELSE [ok |-> FALSE, email |-> ""]

InSeq(x, q) == \E i \in 1..Len(q) : q[i] = x

\* the seen-map loop shared by both extractors: append unless already seen
\* variant: the seen map is never consulted
RECURSIVE AppendUnseenNoSeen(_, _)
AppendUnseenNoSeen(emails, found) ==
    IF Len(found) = 0 THEN emails
    ELSE AppendUnseenNoSeen(Append(emails, Head(found)), Tail(found))

RECURSIVE AppendUnseen(_, _)
AppendUnseen(emails, found) ==
    IF Len(found) = 0 THEN emails
    ELSE AppendUnseen(IF InSeq(Head(found), emails) THEN emails ELSE Append(emails, Head(found)),
                      Tail(found))

\* an anchor element: exists says whether it carries an href attribute
Anchor(h) == [exists |-> TRUE, href |-> h]
BareAnchor == [exists |-> FALSE, href |-> ""]

RECURSIVE MailtoEmails(_)
MailtoEmails(doc) ==
    IF Len(doc) = 0 THEN <<>>
    ELSE LET s == Head(doc)
             v == getValidEmail(TrimPrefix(s.href, "mailto:"))
         IN (IF s.exists /\ HasPrefix(s.href, "mailto:") /\ v.ok THEN <<v.email>> ELSE <<>>)
            \o MailtoEmails(Tail(doc))

docEmailExtractor(doc) == AppendUnseen(<<>>, MailtoEmails(doc))

regexEmailExtractor(body) == AppendUnseen(<<>>, emailaddressFind(body, 1))

\* variant: a platform already present in the map is not overwritten
RECURSIVE AnchorSocialFirstWins(_, _, _)
AnchorSocialFirstWins(m, href, i) ==
    IF i > Len(Platforms) THEN m
    ELSE AnchorSocialFirstWins(IF Contains(href, Platforms[i]) /\ Platforms[i] \notin DOMAIN m
                               THEN MapSet(m, Platforms[i], href) ELSE m,
                               href, i + 1)

RECURSIVE AnchorSocial(_, _, _)
AnchorSocial(m, href, i) ==
    IF i > Len(Platforms) THEN m
    ELSE AnchorSocial(IF Contains(href, Platforms[i]) THEN MapSet(m, Platforms[i], href) ELSE m,
                      href, i + 1)

RECURSIVE extractSocialLinksFrom(_, _)
extractSocialLinksFrom(m, doc) ==
    IF Len(doc) = 0 THEN m
    ELSE extractSocialLinksFrom(IF Head(doc).exists THEN AnchorSocial(m, Head(doc).href, 1) ELSE m,
                                Tail(doc))

extractSocialLinks(doc) == extractSocialLinksFrom(EmptyMap, doc)

\* for key, value := range socialLinks { j.Entry.SocialLinks[key] = value }
MergeSocialLinks(old, new) ==
    [k \in (DOMAIN old) \cup (DOMAIN new) |-> IF k \in DOMAIN new THEN new[k] ELSE old[k]]

\* variant: only the hyphens are removed
cleanNIPHyphens(nip) == ReplaceAll(nip, "-", "")

cleanNIP(nip) == ReplaceAll(ReplaceAll(nip, "-", ""), " ", "")

\* the two alternatives of the pattern, d a digit and s one of [- ]
LayoutA == <<"d", "d", "d", "s", "d", "d", "d", "s", "d", "d", "s", "d", "d">>
LayoutB == <<"d", "d", "d", "s", "d", "d", "s", "d", "d", "s", "d", "d", "d">>

MatchesAt(body, i, layout) ==
    /\ i + Len(layout) - 1 <= Len(body)
    /\ \A k \in 1..Len(layout) :
          IF layout[k] = "d" THEN IsDigit(Char(body, i + k - 1))
          ELSE Char(body, i + k - 1) \in {"-", " "}

extractNIP(body) ==
    LET hits == {i \in 1..Len(body) : MatchesAt(body, i, LayoutA) \/ MatchesAt(body, i, LayoutB)}
    IN IF hits = {} THEN ""
       ELSE LET first == CHOOSE i \in hits : \A k \in hits : i <= k
            IN cleanNIP(SubSeq(body, first, first + Len(LayoutA) - 1))

RegistryURL == "https://api.firmateka.pl/ceidg/firmy?nip="

\* variant: the job is built on a record of another chain
NewCEIDGJobOtherEntry(entry, nip) ==
    [URL |-> RegistryURL \o cleanNIP(nip), Entry |-> IF entry = 1 THEN 2 ELSE 1]

\* entry is the handle (pointer) of the record the new job shares
NewCEIDGJob(entry, nip) == [URL |-> RegistryURL \o cleanNIP(nip), Entry |-> entry]

\* emails := docEmailExtractor(doc); if len(emails) == 0 { regexEmailExtractor }
MinedEmails(resp) ==
    LET emails == docEmailExtractor(resp.Document)
    IN IF Len(emails) = 0 THEN regexEmailExtractor(resp.Body) ELSE emails

\* Process stops before touching the record on a failed fetch or when the
\* response holds no parsed document
EmailProcessSkips(resp) == resp.Error \/ ~resp.IsDoc

EmailProcessOnFetchError == TRUE

\* the record as EmailExtractJob.Process leaves it
EmailProcessEntry(e, resp) ==
    IF EmailProcessSkips(resp) THEN e
    ELSE [e EXCEPT !.Emails = MinedEmails(resp),
                   !.SocialLinks = MergeSocialLinks(e.SocialLinks, extractSocialLinks(resp.Document)),
                   !.NIP = extractNIP(resp.Body)]

\* variant: the nip != "" test is missing
EmailProcessJobsAlways(ptr, e, resp) ==
    IF EmailProcessSkips(resp) THEN <<>>
    ELSE <<NewCEIDGJob(ptr, extractNIP(resp.Body))>>

\* the child jobs EmailExtractJob.Process returns for the record at handle ptr
EmailProcessJobs(ptr, e, resp) ==
    IF EmailProcessSkips(resp) THEN <<>>
    ELSE IF extractNIP(resp.Body) # "" THEN <<NewCEIDGJob(ptr, extractNIP(resp.Body))>>
    ELSE <<>>

\* variant: the fetch error is passed on to the caller
EmailProcessErrSurfaced(resp) == IF resp.Error THEN "fetch failed" ELSE "nil"

EmailProcessErr(resp) == "nil"

\* the first value EmailExtractJob.Process returns: j.Entry on every path,
\* also next to a child job; 0 stands for nil
EmailProcessResult(ptr, resp) == ptr

(***************************************************************************)
(* CEIDGExtractJob.Process.  env is what the process environment and the   *)
(* registry answer: dotenv (godotenv.Load succeeded), apiKey, do and read  *)
(* (client.Do, ioutil.ReadAll: "ok" or the error) and the response body.   *)
(***************************************************************************)
Obj(firmy) == [t |-> "obj", firmy |-> firmy]

Firma(id, nazwa, nip) ==
    [ID |-> id, Nazwa |-> nazwa, Imie |-> "Jan", Nazwisko |-> "Nowak", Nip |-> nip, Regon |-> "",
     Ulica |-> "Prosta", Budynek |-> "1", Miasto |-> "Lodz", Wojewodztwo |-> "", Powiat |-> "",
     Gmina |-> "", Kraj |-> "PL", Kod |-> "90-001", DataRozpoczecia |-> "2020-01-01",
     Status |-> "AKTYWNY", Link |-> ""]

Q(s) == "\"" \o s \o "\""

\* fmt.Sprintf of the registry record, layout whitespace left out
FormatCEIDG(f) ==
    "{\"id\": " \o Q(f.ID) \o ", \"nazwa\": " \o Q(f.Nazwa)
    \o ", \"wlasciciel\": {\"imie\": " \o Q(f.Imie) \o ", \"nazwisko\": " \o Q(f.Nazwisko)
    \o ", \"nip\": " \o Q(f.Nip) \o ", \"regon\": " \o Q(f.Regon)
    \o "}, \"adresDzialalnosci\": {\"ulica\": " \o Q(f.Ulica) \o ", \"budynek\": " \o Q(f.Budynek)
    \o ", \"miasto\": " \o Q(f.Miasto) \o ", \"wojewodztwo\": " \o Q(f.Wojewodztwo)
    \o ", \"powiat\": " \o Q(f.Powiat) \o ", \"gmina\": " \o Q(f.Gmina)
    \o ", \"kraj\": " \o Q(f.Kraj) \o ", \"kod\": " \o Q(f.Kod)
    \o "}, \"dataRozpoczecia\": " \o Q(f.DataRozpoczecia) \o ", \"status\": " \o Q(f.Status)
    \o ", \"link\": " \o Q(f.Link) \o "}"

ErrDotenv == "could not load .env file"
ErrAPIKey == "missing API key"
ErrUnmarshal == "json: cannot unmarshal"

\* json.Unmarshal(body, &firmatekaResponse): only a JSON object decodes
UnmarshalOK(body) == body.t = "obj"

\* variant: the errors of client.Do and ioutil.ReadAll are dropped
CEIDGProcessErrNoTransport(env) ==
    IF ~env.dotenv THEN ErrDotenv
    ELSE IF env.apiKey = "" THEN ErrAPIKey
    ELSE IF ~UnmarshalOK(env.body) THEN ErrUnmarshal
    ELSE "nil"

\* the error CEIDGExtractJob.Process returns, "nil" for none
CEIDGProcessErr(env) ==
    IF ~env.dotenv THEN ErrDotenv
    ELSE IF env.apiKey = "" THEN ErrAPIKey
    ELSE IF env.do # "ok" THEN env.do
    ELSE IF env.read # "ok" THEN env.read
    ELSE IF ~UnmarshalOK(env.body) THEN ErrUnmarshal
    ELSE "nil"

\* Process reaches the assignment j.Entry.CEIDG = ceidgData
CEIDGFound(env) == CEIDGProcessErr(env) = "nil" /\ Len(env.body.firmy) > 0

\* variant: an empty payload is stored when no company record came back
CEIDGProcessEntryAlways(e, env) ==
    IF CEIDGFound(env) THEN [e EXCEPT !.CEIDG = FormatCEIDG(env.body.firmy[1])]
    ELSE [e EXCEPT !.CEIDG = "{}"]

\* the record as CEIDGExtractJob.Process leaves it
CEIDGProcessEntry(e, env) ==
    IF CEIDGFound(env) THEN [e EXCEPT !.CEIDG = FormatCEIDG(env.body.firmy[1])] ELSE e

CEIDGProcessJobs(env) == <<>>

\* the first value CEIDGExtractJob.Process returns: j.Entry on every path
CEIDGProcessResult(ptr, env) == ptr

(***************************************************************************)
(* State                                                                   *)
(***************************************************************************)
VARIABLES
    raw,          \* bytes handed to EntryFromJSON, as the JSON value they spell
    decoded,      \* what EntryFromJSON gave back for raw
    mineEntry,    \* *j.Entry of a lone EmailExtractJob
    mineResp,     \* the response handed to its Process
    mineRet,      \* what its Process returned, with the record as it was before
    crashed,      \* the process died of a run-time panic
    entries,      \* the heap of records, by handle
    placeJob,     \* per record: state of the job that decodes it
    emailJob,     \* per record: the EmailExtractJob the decode stage spawned
    ceidgJob,     \* per record: the CEIDGExtractJob its mining job spawned
    ceidgWrites   \* per handle: number of assignments to Entry.CEIDG so far

vars == <<raw, decoded, mineEntry, mineResp, mineRet,
          crashed, entries, placeJob, emailJob, ceidgJob, ceidgWrites>>

decodeVars == <<raw, decoded>>
mineVars == <<mineEntry, mineResp, mineRet>>
chainVars == <<crashed, entries, placeJob, emailJob, ceidgJob, ceidgWrites>>

(***************************************************************************)
(* Inputs                                                                  *)
(***************************************************************************)
MaxExtra == 1
MaxAnchors == 3
NumRecords == 2

Records == 1..NumRecords

\* the sub-sequence: n elements, null except at the indexes the decoder reads
Darray(n, v0, v1, v5, v7, v11, v18, v178, v183) ==
    [i \in 1..n |-> CASE i = 1 -> v0 [] i = 2 -> v1 [] i = 6 -> v5 [] i = 8 -> v7
                      [] i = 12 -> v11 [] i = 19 -> v18 [] i = 179 -> v178
                      [] i = 184 -> v183 [] OTHER -> Null]

TopLevel(n, sixth) == Arr([i \in 1..n |-> IF i = SubSeqIndex + 1 THEN sixth ELSE Null])

DarrayLens == {0, 1, 2, 6, 8, 12, 19, 179, 184}
OptID == {Str("0x1:0x2"), Num(3)}
OptLink == {Str("https://maps/p"), Null}
OptEmails == {Null, Arr(<<Str("a@x.c")>>)}
OptWebSite == {Null, Str("http://x.c"), Arr(<<>>), Arr(<<Str("http://x.c")>>),
               Arr(<<Str("http://facebook.c/s")>>), Arr(<<Num(1)>>)}
OptTitle == {Str("Acme"), Num(1)}
OptAddress == {Null, Str("Acme, Main Street 12, 00-123, Poland"), Str("Acme, MainStreet")}
OptPhone == {Null, Arr(<<Str("555")>>), Arr(<<Arr(<<>>)>>), Arr(<<Arr(<<Str("555")>>)>>)}
OptCity == {Null, Arr(<<Null>>), Arr(<<Null, Arr(<<Null, Null>>)>>),
            Arr(<<Null, Arr(<<Null, Null, Null, Str("Lodz")>>)>>),
            Arr(<<Null, Arr(<<Null, Null, Null, Num(1)>>)>>)}

\* a payload with every field present and well typed, website w
FullPayload(w) ==
    TopLevel(MinTopLevel,
             Arr(Darray(184, Str("0x1:0x2"), Str("https://maps/p"), Null, Arr(<<Str(w)>>),
                        Str("Acme"), Str("Acme, Main Street 12, 00-123, Poland"),
                        Arr(<<Arr(<<Str("555")>>)>>),
                        Arr(<<Null, Arr(<<Null, Null, Null, Str("Lodz")>>)>>))))

ShortPayload == TopLevel(MinTopLevel - 1, Null)
TruncatedPayload == TopLevel(MinTopLevel, Arr(<<Str("0x1:0x2")>>))

HTMLAnchor(a) == IF a.exists THEN "<a href=\"" \o a.href \o "\">" ELSE "<a>"

RECURSIVE Render(_)
Render(doc) == IF Len(doc) = 0 THEN "" ELSE HTMLAnchor(Head(doc)) \o Render(Tail(doc))

ErrorResp == [Error |-> TRUE, IsDoc |-> FALSE, Document |-> <<>>, Body |-> ""]
\* a fetched body the fetcher did not parse into a document
PlainResp(text) == [Error |-> FALSE, IsDoc |-> FALSE, Document |-> <<>>, Body |-> text]
Page(doc, text) == [Error |-> FALSE, IsDoc |-> TRUE, Document |-> doc, Body |-> Render(doc) \o text]

Hrefs == {"mailto:a@x.c", "mailto: a@x.c ", "mailto:b@x.c", "mailto:c@x.c?s=1",
          "http://facebook.c/p", "http://facebook.c/q", "http://twitter.c/instagram"}
Anchors == {Anchor(h) : h \in Hrefs} \cup {BareAnchor}
Docs == UNION {[1..n -> Anchors] : n \in 0..MaxAnchors}
Texts == {"", " mail d@x.c or d@x.c e@x.c", " NIP 123-456-78-90", " tel 123 45 67-890 d@x.c",
          " 123-456-78-9", " x1234-567-89-01 222-33-44-555"}
Responses == {ErrorResp} \cup {PlainResp(t) : t \in Texts}
             \cup {Page(d, t) : d \in Docs, t \in Texts}

MinePayloads == {FullPayload("http://x.c"), FullPayload("http://facebook.c/s"),
                 FullPayload("http://twitter.c/instagram")}

ChainPayloads == {FullPayload("http://x.c"), ShortPayload, TruncatedPayload}
ChainResps == {ErrorResp,
               Page(<<Anchor("mailto:a@x.c"), Anchor("http://facebook.c/p")>>, " NIP 123-456-78-90"),
               Page(<<>>, " mail d@x.c")}

EnvOK(body) == [dotenv |-> TRUE, apiKey |-> "key", do |-> "ok", read |-> "ok", body |-> body]
RegistryBodies == {NotJSON, Arr(<<>>), Obj(<<>>), Obj(<<Firma("1", "Acme", "1234567890")>>),
                   Obj(<<Firma("2", "Beta", "1234567890"), Firma("1", "Acme", "1234567890")>>)}
Envs == {EnvOK(b) : b \in RegistryBodies}
        \cup {[EnvOK(NotJSON) EXCEPT !.dotenv = FALSE], [EnvOK(NotJSON) EXCEPT !.apiKey = ""],
              [EnvOK(NotJSON) EXCEPT !.do = "context deadline exceeded"],
              [EnvOK(NotJSON) EXCEPT !.read = "unexpected EOF"]}

(***************************************************************************)
(* Idle values of the parts a specification does not exercise              *)
(***************************************************************************)
NotDecoded == [kind |-> "none", entry |-> ZeroEntry]
NotCalled == [called |-> FALSE, pre |-> ZeroEntry, jobs |-> <<>>, err |-> "nil"]
NoRet == [result |-> 0, jobs |-> <<>>, err |-> "nil"]
NoEmailJob == [pc |-> "none", Entry |-> 0, URL |-> "", resp |-> ErrorResp, pre |-> ZeroEntry, ret |-> NoRet]
NoCEIDGJob == [pc |-> "none", Entry |-> 0, URL |-> "", fetchErr |-> FALSE, env |-> EnvOK(NotJSON),
               pre |-> ZeroEntry, ret |-> NoRet]

IdleDecode == raw = Null /\ decoded = NotDecoded
IdleMine == mineEntry = ZeroEntry /\ mineResp = ErrorResp /\ mineRet = NotCalled
IdleChain ==
    /\ crashed = FALSE
    /\ entries = [r \in Records |-> ZeroEntry]
    /\ placeJob = [r \in Records |-> "idle"]
    /\ emailJob = [r \in Records |-> NoEmailJob]
    /\ ceidgJob = [r \in Records |-> NoCEIDGJob]
    /\ ceidgWrites = [r \in Records |-> 0]

(***************************************************************************)
(* EntryFromJSON on its own                                                *)
(***************************************************************************)
InitDecode ==
    /\ \/ raw \in {NotJSON, Null, Str("x")}
       \/ \E n \in 0..(MinTopLevel + MaxExtra) : \E sixth \in {Null, Str("x"), Num(1)} :
             raw = TopLevel(n, sixth)
       \/ \E n \in MinTopLevel..(MinTopLevel + MaxExtra), len \in DarrayLens :
          \E v0 \in OptID, v1 \in OptLink, v5 \in OptEmails, v7 \in OptWebSite :
          \E v11 \in OptTitle, v18 \in OptAddress, v178 \in OptPhone, v183 \in OptCity :
             raw = TopLevel(n, Arr(Darray(len, v0, v1, v5, v7, v11, v18, v178, v183)))
    /\ decoded = NotDecoded
    /\ IdleMine
    /\ IdleChain

Decode ==
    /\ decoded.kind = "none"
    /\ decoded' = EntryFromJSON(raw)
    /\ UNCHANGED <<raw, mineVars, chainVars>>

NextDecode == Decode

SpecDecode == InitDecode /\ [][NextDecode]_vars

(***************************************************************************)
(* EmailExtractJob.Process on its own, on a freshly decoded record         *)
(***************************************************************************)
InitMine ==
    /\ mineEntry \in {EntryFromJSON(p).entry : p \in MinePayloads}
    /\ mineResp \in Responses
    /\ mineRet = NotCalled
    /\ IdleDecode
    /\ IdleChain

Mine ==
    /\ ~mineRet.called
    /\ mineResp.Error => EmailProcessOnFetchError
    /\ mineEntry' = EmailProcessEntry(mineEntry, mineResp)
    /\ mineRet' = [called |-> TRUE, pre |-> mineEntry,
                   jobs |-> EmailProcessJobs(1, mineEntry, mineResp),
                   err |-> EmailProcessErr(mineResp)]
    /\ UNCHANGED <<mineResp, decodeVars, chainVars>>

NextMine == Mine

SpecMine == InitMine /\ [][NextMine]_vars

(***************************************************************************)
(* The job chain of each record under the executor.  A job a Process       *)
(* returns becomes runnable when that Process returns.  Process bodies are *)
(* split at their writes to the shared record so that jobs interleave.     *)
(***************************************************************************)
Init ==
    /\ crashed = FALSE
    /\ entries = [r \in Records |-> ZeroEntry]
    /\ placeJob = [r \in Records |-> "queued"]
    /\ emailJob = [r \in Records |-> NoEmailJob]
    /\ ceidgJob = [r \in Records |-> NoCEIDGJob]
    /\ ceidgWrites = [r \in Records |-> 0]
    /\ IdleDecode
    /\ IdleMine

NewEmailJob(entry, website) ==
    [NoEmailJob EXCEPT !.pc = "queued", !.Entry = entry, !.URL = website]

\* the decode stage: builds the record from the payload and, when asked to
\* (extractEmail), hands it to a contact-mining job
PlaceProcess(r) ==
    /\ ~crashed
    /\ placeJob[r] = "queued"
    /\ \E payload \in ChainPayloads, extractEmail \in BOOLEAN :
          LET d == EntryFromJSON(payload)
          IN CASE d.kind = "panic" ->
                    /\ crashed' = TRUE
                    /\ UNCHANGED <<entries, placeJob, emailJob>>
               [] d.kind = "err" ->
                    /\ placeJob' = [placeJob EXCEPT ![r] = "failed"]
                    /\ UNCHANGED <<crashed, entries, emailJob>>
               [] d.kind = "ok" ->
                    /\ entries' = [entries EXCEPT ![r] = d.entry]
                    /\ placeJob' = [placeJob EXCEPT ![r] = "done"]
                    /\ emailJob' = IF extractEmail
                                   THEN [emailJob EXCEPT ![r] = NewEmailJob(r, d.entry.WebSite)]
                                   ELSE emailJob
                    /\ UNCHANGED crashed
    /\ UNCHANGED <<ceidgJob, ceidgWrites, decodeVars, mineVars>>

\* the executor hands the fetch result to EmailExtractJob.Process, which
\* returns at once on a failed fetch or a missing document
EmailInvoke(r) ==
    /\ ~crashed
    /\ emailJob[r].pc = "queued"
    /\ \E resp \in ChainResps :
          LET j == emailJob[r]
          IN /\ resp.Error => EmailProcessOnFetchError
             /\ emailJob' = [emailJob EXCEPT ![r] =
                   IF EmailProcessSkips(resp)
                   THEN [j EXCEPT !.pc = "done", !.resp = resp, !.pre = entries[j.Entry],
                                  !.ret = [result |-> EmailProcessResult(j.Entry, resp),
                                           jobs |-> EmailProcessJobs(j.Entry, entries[j.Entry], resp),
                                           err |-> EmailProcessErr(resp)]]
                   ELSE [j EXCEPT !.pc = "emails", !.resp = resp, !.pre = entries[j.Entry]]]
    /\ UNCHANGED <<crashed, entries, placeJob, ceidgJob, ceidgWrites, decodeVars, mineVars>>

\* j.Entry.Emails = emails
EmailWriteEmails(r) ==
    /\ ~crashed
    /\ emailJob[r].pc = "emails"
    /\ entries' = [entries EXCEPT ![emailJob[r].Entry].Emails = MinedEmails(emailJob[r].resp)]
    /\ emailJob' = [emailJob EXCEPT ![r].pc = "social"]
    /\ UNCHANGED <<crashed, placeJob, ceidgJob, ceidgWrites, decodeVars, mineVars>>

\* j.Entry.SocialLinks[key] = value for every extracted link
EmailWriteSocial(r) ==
    /\ ~crashed
    /\ emailJob[r].pc = "social"
    /\ entries' = [entries EXCEPT ![emailJob[r].Entry].SocialLinks =
                      MergeSocialLinks(@, extractSocialLinks(emailJob[r].resp.Document))]
    /\ emailJob' = [emailJob EXCEPT ![r].pc = "nip"]
    /\ UNCHANGED <<crashed, placeJob, ceidgJob, ceidgWrites, decodeVars, mineVars>>

\* j.Entry.NIP = nip
EmailWriteNIP(r) ==
    /\ ~crashed
    /\ emailJob[r].pc = "nip"
    /\ entries' = [entries EXCEPT ![emailJob[r].Entry].NIP = extractNIP(emailJob[r].resp.Body)]
    /\ emailJob' = [emailJob EXCEPT ![r].pc = "return"]
    /\ UNCHANGED <<crashed, placeJob, ceidgJob, ceidgWrites, decodeVars, mineVars>>

\* Process returns; the executor queues the child job, if any
EmailReturn(r) ==
    /\ ~crashed
    /\ emailJob[r].pc = "return"
    /\ LET j == emailJob[r]
           jobs == EmailProcessJobs(j.Entry, entries[j.Entry], j.resp)
       IN /\ emailJob' = [emailJob EXCEPT ![r] =
                             [@ EXCEPT !.pc = "done",
                                       !.ret = [result |-> EmailProcessResult(j.Entry, j.resp),
                                                jobs |-> jobs, err |-> EmailProcessErr(j.resp)]]]
          /\ ceidgJob' = IF Len(jobs) > 0
                         THEN [ceidgJob EXCEPT ![r] =
                                 [NoCEIDGJob EXCEPT !.pc = "queued", !.Entry = jobs[1].Entry,
                                                    !.URL = jobs[1].URL]]
                         ELSE ceidgJob
    /\ UNCHANGED <<crashed, entries, placeJob, ceidgWrites, decodeVars, mineVars>>

\* the executor's own fetch of the job URL failed and it does not call Process
CeidgFetchFailed(r) ==
    /\ ~crashed
    /\ ceidgJob[r].pc = "queued"
    /\ ceidgJob' = [ceidgJob EXCEPT ![r].pc = "notrun", ![r].fetchErr = TRUE]
    /\ UNCHANGED <<crashed, entries, placeJob, emailJob, ceidgWrites, decodeVars, mineVars>>

\* CEIDGExtractJob.Process is called: it never reads resp, sends its own
\* request and returns unless a company record came back
CeidgInvoke(r) ==
    /\ ~crashed
    /\ ceidgJob[r].pc = "queued"
    /\ \E fetchErr \in BOOLEAN, env \in Envs :
          LET j == ceidgJob[r]
          IN IF CEIDGFound(env)
             THEN /\ ceidgJob' = [ceidgJob EXCEPT ![r] =
                        [j EXCEPT !.pc = "write", !.fetchErr = fetchErr, !.env = env,
                                  !.pre = entries[j.Entry]]]
                  /\ UNCHANGED entries
             ELSE /\ ceidgJob' = [ceidgJob EXCEPT ![r] =
                        [j EXCEPT !.pc = "done", !.fetchErr = fetchErr, !.env = env,
                                  !.pre = entries[j.Entry],
                                  !.ret = [result |-> CEIDGProcessResult(j.Entry, env),
                                           jobs |-> CEIDGProcessJobs(env),
                                           err |-> CEIDGProcessErr(env)]]]
                  /\ entries' = [entries EXCEPT ![j.Entry] = CEIDGProcessEntry(@, env)]
    /\ UNCHANGED <<crashed, placeJob, emailJob, ceidgWrites, decodeVars, mineVars>>

\* j.Entry.CEIDG = ceidgData
CeidgWrite(r) ==
    /\ ~crashed
    /\ ceidgJob[r].pc = "write"
    /\ entries' = [entries EXCEPT ![ceidgJob[r].Entry] = CEIDGProcessEntry(@, ceidgJob[r].env)]
    /\ ceidgWrites' = [ceidgWrites EXCEPT ![ceidgJob[r].Entry] = @ + 1]
    /\ ceidgJob' = [ceidgJob EXCEPT ![r].pc = "return"]
    /\ UNCHANGED <<crashed, placeJob, emailJob, decodeVars, mineVars>>

CeidgReturn(r) ==
    /\ ~crashed
    /\ ceidgJob[r].pc = "return"
    /\ ceidgJob' = [ceidgJob EXCEPT ![r] =
                       [ceidgJob[r] EXCEPT !.pc = "done",
                                 !.ret = [result |-> CEIDGProcessResult(ceidgJob[r].Entry, ceidgJob[r].env),
                                          jobs |-> CEIDGProcessJobs(ceidgJob[r].env),
                                          err |-> CEIDGProcessErr(ceidgJob[r].env)]]]
    /\ UNCHANGED <<crashed, entries, placeJob, emailJob, ceidgWrites, decodeVars, mineVars>>

Next ==
    \E r \in Records :
       \/ PlaceProcess(r)
       \/ EmailInvoke(r)
       \/ EmailWriteEmails(r)
       \/ EmailWriteSocial(r)
       \/ EmailWriteNIP(r)
       \/ EmailReturn(r)
       \/ CeidgFetchFailed(r)
       \/ CeidgInvoke(r)
       \/ CeidgWrite(r)
       \/ CeidgReturn(r)

Spec == Init /\ [][Next]_vars

(***************************************************************************)
(* Properties                                                              *)
(***************************************************************************)
Range(q) == {q[i] : i \in 1..Len(q)}
NoDup(q) == \A i, k \in 1..Len(q) : i # k => q[i] # q[k]
FirstPos(q, x) == CHOOSE i \in 1..Len(q) : q[i] = x /\ \A k \in 1..(i - 1) : q[k] # x
\* q lists its elements in the order in which they first occur in found
FirstSeenOrder(q, found) ==
    \A i, k \in 1..Len(q) : i < k => FirstPos(found, q[i]) < FirstPos(found, q[k])

\* the payload passes the shape check
ShapeOK(p) == p.t = "arr" /\ Len(p.v) >= MinTopLevel /\ p.v[SubSeqIndex + 1].t = "arr"

\* the value at an index path, if every step of the path resolves
RECURSIVE Lookup(_, _)
Lookup(arr, path) ==
    IF Head(path) >= Len(arr) THEN [found |-> FALSE, x |-> Null]
    ELSE IF Len(path) = 1 THEN [found |-> TRUE, x |-> arr[Head(path) + 1]]
    ELSE IF arr[Head(path) + 1].t # "arr" THEN [found |-> FALSE, x |-> Null]
    ELSE Lookup(arr[Head(path) + 1].v, Tail(path))

StringAt(arr, path) ==
    LET l == Lookup(arr, path) IN IF l.found /\ l.x.t = "str" THEN l.x.v ELSE ""

\* C1: every payload that passes the shape check decodes to a record, without
\* a crash, in which each string field is the string at its index path, or ""
\* when the path is out of range, null or of another type at any step.
C1_SoftFieldMisses ==
    (decoded.kind # "none" /\ ShapeOK(raw)) =>
        LET darray == raw.v[SubSeqIndex + 1].v
            e == decoded.entry
        IN /\ decoded.kind = "ok"
           /\ e.ID = StringAt(darray, <<0>>)
           /\ e.Link = StringAt(darray, <<1>>)
           /\ e.Title = StringAt(darray, <<11>>)
           /\ e.City = StringAt(darray, <<183, 1, 3>>)
           /\ e.WebSite = StringAt(darray, <<7, 0>>)
           /\ e.Phone = StringAt(darray, <<178, 0, 0>>)
           /\ e.Address = extractStreetAndNumber(StringAt(darray, <<18>>))

\* C2: EntryFromJSON returns an error and the empty record when the payload
\* fails the shape check, and a record with no error in every other case.
C2_ShapeCheckOnly ==
    decoded.kind # "none" =>
        IF ShapeOK(raw) THEN decoded.kind = "ok"
        ELSE decoded.kind = "err" /\ decoded.entry = ZeroEntry

\* C3: a registry job exists for a record only once the mining job of that
\* record has returned it, on the same record, with a non-empty NIP set; a
\* mining job that ends with an empty NIP leaves no registry job.
C3_RegistryJobOnlyAfterNIP ==
    \A r \in Records :
        /\ ceidgJob[r].pc # "none" =>
              /\ emailJob[r].pc = "done"
              /\ Len(emailJob[r].ret.jobs) = 1
              /\ ceidgJob[r].Entry = emailJob[r].Entry
              /\ emailJob[r].Entry = r
              /\ entries[r].NIP # ""
        /\ (emailJob[r].pc = "done" /\ entries[emailJob[r].Entry].NIP = "") =>
              /\ ceidgJob[r].pc = "none"
              /\ emailJob[r].ret.jobs = <<>>

C3_Witness ==
    \E r \in Records : ceidgJob[r].pc = "queued" /\ entries[r].NIP = "1234567890"

EmailRunning(r) == emailJob[r].pc \in {"emails", "social", "nip", "return"}
CeidgRunning(r) == ceidgJob[r].pc \in {"write", "return"}
\* the jobs whose Process is under way on the record at handle h
Mutators(h) ==
    {<<"email", r>> : r \in {x \in Records : EmailRunning(x) /\ emailJob[x].Entry = h}}
    \cup {<<"ceidg", r>> : r \in {x \in Records : CeidgRunning(x) /\ ceidgJob[x].Entry = h}}

\* C4: no record has two jobs inside Process at once, and a registry job
\* exists for a record only when every mining job on that record has returned.
C4_OneMutatorPerRecord ==
    /\ \A h \in Records : Cardinality(Mutators(h)) <= 1
    /\ \A r, m \in Records :
          (ceidgJob[r].pc # "none" /\ emailJob[m].Entry = ceidgJob[r].Entry) =>
              emailJob[m].pc = "done"

C4_Witness ==
    \E r, m \in Records : r # m /\ CeidgRunning(r) /\ EmailRunning(m)

\* C5: CEIDG is non-empty only on a record whose NIP is non-empty, and it is
\* assigned at most once per record.
C5_RegistryDataOnce ==
    \A h \in Records :
        /\ entries[h].CEIDG # "" => entries[h].NIP # ""
        /\ ceidgWrites[h] <= 1

C5_Witness ==
    \E h \in Records : entries[h].CEIDG # "" /\ ceidgWrites[h] = 1 /\ ceidgJob[h].pc = "done"

AllOK(env) == env.dotenv /\ env.apiKey # "" /\ env.do = "ok" /\ env.read = "ok"
TransportFailed(env) == env.dotenv /\ env.apiKey # "" /\ (env.do # "ok" \/ env.read # "ok")

C7_FetchErrorNoOp ==
    /\ EmailProcessOnFetchError
    /\ (mineRet.called /\ mineResp.Error) =>
          /\ mineEntry = mineRet.pre
          /\ mineRet.jobs = <<>>
          /\ mineRet.err = "nil"

C7_Witness ==
    mineRet.called /\ mineResp.Error /\ DOMAIN mineEntry.SocialLinks # {}

IsValidMailto(a) ==
    /\ a.exists
    /\ HasPrefix(a.href, "mailto:")
    /\ emailaddressParseOK(TrimSpace(TrimPrefix(a.href, "mailto:")))
\* the address of each anchor, "" for an anchor that is no valid mailto link
MailtoOf(doc) ==
    [i \in 1..Len(doc) |-> IF IsValidMailto(doc[i]) THEN TrimSpace(TrimPrefix(doc[i].href, "mailto:"))
                            ELSE ""]
Mined == mineRet.called /\ ~mineResp.Error /\ mineResp.IsDoc

\* C8: after a successful mining, emails holds the valid mailto addresses of
\* the document, each once, in first-seen order, when there is one; otherwise
\* the addresses found in the body, each once, in first-seen order.  It never
\* holds a duplicate or an empty string.
C8_EmailsTwoPhase ==
    Mined =>
        LET emails == mineEntry.Emails
            mailto == MailtoOf(mineResp.Document)
            inBody == emailaddressFind(mineResp.Body, 1)
        IN /\ NoDup(emails)
           /\ "" \notin Range(emails)
           /\ IF Range(mailto) \ {""} # {}
              THEN Range(emails) = Range(mailto) \ {""} /\ FirstSeenOrder(emails, mailto)
              ELSE Range(emails) = Range(inBody) /\ FirstSeenOrder(emails, inBody)

\* mailto phase: a repeated address and a second one, body addresses left out
C8_Witness ==
    /\ Mined
    /\ mineEntry.Emails = <<"b@x.c", "a@x.c">>
    /\ Len(mineResp.Document) = 3
    /\ Range(emailaddressFind(mineResp.Body, 1)) = {"a@x.c", "b@x.c", "d@x.c", "e@x.c"}

PlatformNames == {Platforms[i] : i \in 1..Len(Platforms)}
AnchorsWith(doc, p) == {i \in 1..Len(doc) : doc[i].exists /\ Contains(doc[i].href, p)}
LastOf(S) == CHOOSE i \in S : \A k \in S : k <= i

\* C9: after decode and a successful mining, each platform maps to the href of
\* the last anchor that contains its name, if any, and otherwise is as it was
\* before mining; no other key is ever in socialLinks.
C9_SocialLastAnchorWins ==
    /\ DOMAIN mineEntry.SocialLinks \subseteq PlatformNames
    /\ Mined =>
          \A p \in PlatformNames :
              LET hits == AnchorsWith(mineResp.Document, p)
                  links == mineEntry.SocialLinks
                  before == mineRet.pre.SocialLinks
              IN IF hits # {}
                 THEN p \in DOMAIN links /\ links[p] = mineResp.Document[LastOf(hits)].href
                 ELSE /\ (p \in DOMAIN links) <=> (p \in DOMAIN before)
                      /\ p \in DOMAIN links => links[p] = before[p]

\* a seeded facebook entry overwritten by the second of two facebook anchors,
\* a seeded one kept
C9_Witness ==
    /\ Mined
    /\ mineRet.pre.SocialLinks = [k \in {"facebook"} |-> "http://facebook.c/s"]
    /\ Cardinality(AnchorsWith(mineResp.Document, "facebook")) = 2
    /\ mineResp.Document[1].href = "http://facebook.c/q"
    /\ mineEntry.SocialLinks = [k \in {"facebook"} |-> "http://facebook.c/p"]

\* C10: the registry stage changes the record only when the response decodes
\* and lists a company, and then only CEIDG; a missing API key or a body that
\* does not decode gives an error, the record as before and no child job; a
\* decoded response with no company gives no error and leaves CEIDG empty.
C10_RegistryOutcomes ==
    \A r \in Records :
        ceidgJob[r].pc = "done" =>
            LET j == ceidgJob[r]
                e == entries[j.Entry]
            IN /\ e # j.pre =>
                     /\ AllOK(j.env) /\ j.env.body.t = "obj" /\ Len(j.env.body.firmy) > 0
                     /\ [e EXCEPT !.CEIDG = j.pre.CEIDG] = j.pre
                     /\ j.ret.err = "nil"
               /\ ((j.env.dotenv /\ j.env.apiKey = "") \/ (AllOK(j.env) /\ j.env.body.t # "obj")) =>
                     /\ j.ret.err # "nil"
                     /\ e = j.pre
                     /\ j.ret.jobs = <<>>
               /\ (AllOK(j.env) /\ j.env.body.t = "obj" /\ Len(j.env.body.firmy) = 0) =>
                     /\ j.ret.err = "nil"
                     /\ e.CEIDG = ""
                     /\ e = j.pre

C10_Witness ==
    \E r \in Records :
        /\ ceidgJob[r].pc = "done"
        /\ entries[ceidgJob[r].Entry] # ceidgJob[r].pre
        /\ Len(ceidgJob[r].env.body.firmy) = 2
        /\ ceidgJob[r].ret.err = "nil"

\* groups of g[1], g[2], ... digits from position i on, one of [- ] between them
RECURSIVE GroupsAt(_, _, _)
GroupsAt(body, i, g) ==
    /\ i + g[1] - 1 <= Len(body)
    /\ \A k \in i..(i + g[1] - 1) : Char(body, k) \in Digits
    /\ Len(g) > 1 =>
          /\ i + g[1] <= Len(body)
          /\ Char(body, i + g[1]) \in {"-", " "}
          /\ GroupsAt(body, i + g[1] + 1, Tail(g))
NIPStarts(body) ==
    {i \in 1..Len(body) : GroupsAt(body, i, <<3, 3, 2, 2>>) \/ GroupsAt(body, i, <<3, 2, 2, 3>>)}
RECURSIVE DigitsOf(_)
DigitsOf(t) ==
    IF Len(t) = 0 THEN ""
    ELSE (IF Char(t, 1) \in Digits THEN Char(t, 1) ELSE "") \o DigitsOf(SubSeq(t, 2, Len(t)))
TenDigits(t) == Len(t) = 10 /\ \A k \in 1..Len(t) : Char(t, k) \in Digits

\* C11: the NIP a successful mining sets is the first 3-3-2-2 or 3-2-2-3 digit
\* grouping of the body with its separators removed, "" when there is none;
\* the NIP of the record is always empty or exactly ten digits.
C11_NIPFirstGrouping ==
    /\ mineEntry.NIP = "" \/ TenDigits(mineEntry.NIP)
    /\ Mined =>
          LET starts == NIPStarts(mineResp.Body)
          IN IF starts = {} THEN mineEntry.NIP = ""
             ELSE LET first == CHOOSE i \in starts : \A k \in starts : i <= k
                  IN mineEntry.NIP = DigitsOf(SubSeq(mineResp.Body, first, first + 12))

\* several groupings in the body, overlapping ones included; the first starts
\* inside a longer digit run
C11_Witness ==
    /\ Mined
    /\ Cardinality(NIPStarts(mineResp.Body)) = 3
    /\ mineEntry.NIP = "2345678901"

\* the sequence of strings at index 5 of the sub-sequence, <<>> when index 5
\* is absent, null or not a sequence of strings only
StringsAt5(darray) ==
    LET l == Lookup(darray, <<5>>)
    IN IF l.found /\ l.x.t = "arr" /\ (\A i \in 1..Len(l.x.v) : l.x.v[i].t = "str")
       THEN [i \in 1..Len(l.x.v) |-> l.x.v[i].v]
       ELSE <<>>

\* C12: the record EntryFromJSON returns has as emails the sequence of strings
\* held at index 5 of the sub-sequence, in order, and the empty sequence when
\* index 5 is absent, null or not a sequence of strings.
C12_EmailsFromIndex5 ==
    decoded.kind = "ok" =>
        decoded.entry.Emails = StringsAt5(raw.v[SubSeqIndex + 1].v)

\* the jobs whose Process has returned the record at handle h as its result
Yields(h) ==
    {<<"email", r>> : r \in {x \in Records : emailJob[x].pc = "done" /\ emailJob[x].ret.result = h}}
    \cup {<<"ceidg", r>> : r \in {x \in Records : ceidgJob[x].pc = "done" /\ ceidgJob[x].ret.result = h}}
\* a registry job on the record at handle h has yet to run or to finish
RegistryPending(h) ==
    \E r \in Records : ceidgJob[r].Entry = h /\ ceidgJob[r].pc \in {"queued", "write", "return"}

\* C13: a Process returns the record as its result only when it returns no
\* child job on that record; each record is a result at most once, and never
\* while a registry job on it is pending.
C13_YieldOnlyWhenComplete ==
    \A h \in Records :
        /\ \A r \in Records :
              (emailJob[r].pc = "done" /\ emailJob[r].ret.result = h) =>
                  \A k \in 1..Len(emailJob[r].ret.jobs) : emailJob[r].ret.jobs[k].Entry # h
        /\ Cardinality(Yields(h)) <= 1
        /\ Yields(h) # {} => ~RegistryPending(h)

====
